---- MODULE Spec2Model ----
(***************************************************************************)
(* Model of brainfuck-rs: scanner, bytecode compiler with loop-jump        *)
(* resolution, the bytecode virtual machine and the Interpreter that       *)
(* composes them (src/src/lib.rs), plus the 30-cell VM of src/src/main.rs. *)
(*                                                                         *)
(* Characters are modelled by their code points (Nat); a Vec<T> is a       *)
(* sequence, so the Rust index k is the TLA+ index k + 1.  The tape is the *)
(* exception: memory is the function from the indices (0-based) of the     *)
(* cells that hold a nonzero value to that value, every other cell of the  *)
(* MemoryLen cells holding 0.                                              *)
(***************************************************************************)
EXTENDS Integers, Naturals, Sequences, FiniteSets, TLC

(* ---------------------------- bounds ----------------------------------- *)
\* longest source string / token vector handed to one call
MaxLen == 4
\* longest source string handed to an interpret call after the first one
MaxLenLater == MaxLen - 4
\* longest token vector handed to a compile_bytecode call after the first one
MaxVecLater == MaxLen - 2
\* longest of the short source strings of the calls on a reused Interpreter
MaxLenShort == MaxLen - 2
\* number of interpret / compile_bytecode calls on one object
MaxCalls == 2
\* number of characters pushed into the test input queue
MaxInput == 1
\* number of VM steps followed in one run
MaxSteps == 8
\* number of VM steps followed in one run of a program of the test suite
MaxProgramSteps == 1000

(* ------------------------- program constants --------------------------- *)
\* vec![0; 3000] in lib.rs, vec![0; 30] in main.rs
LibMemorySize == 3000
MainMemorySize == 30
\* number of values of a u8 cell
U8Modulus == 256

(* ------------------------------ token ---------------------------------- *)
Token == {"LessThan", "GreaterThan", "Plus", "Minus", "Dot", "Comma",
          "LeftSquareBracket", "RightSquareBracket", "Space"}

\* code points of the eight instruction characters and of one other one
ChGreaterThan == 62
ChLessThan == 60
ChPlus == 43
ChMinus == 45
ChDot == 46
ChComma == 44
ChLeftSquareBracket == 91
ChRightSquareBracket == 93
ChSpace == 32

InstructionChars == {ChGreaterThan, ChLessThan, ChPlus, ChMinus, ChDot,
                     ChComma, ChLeftSquareBracket, ChRightSquareBracket}

\* the characters source strings are drawn from
SourceChars == InstructionChars \cup {ChSpace}

\* the characters the input queue is filled from ('A' and U+0141)
InputChars == {65, 321}

(* ----------------------------- bytecode -------------------------------- *)
Op(name) == [op |-> name, jump_to |-> 0]
LoopStart(j) == [op |-> "LoopStart", jump_to |-> j]
LoopEnd(j) == [op |-> "LoopEnd", jump_to |-> j]

(* ------------------------------ scanner -------------------------------- *)
\* a filter that lets every instruction character but `,` through
ScanFilter_NoComma(c) == c \in InstructionChars \ {ChComma}

\* the filter closure of scan
ScanFilter(c) == c \in InstructionChars

\* the map closure of scan; "panic" stands for the unreachable panic! arm
ScanMap(c) ==
    CASE c = ChGreaterThan -> "GreaterThan"
      [] c = ChLessThan -> "LessThan"
      [] c = ChPlus -> "Plus"
      [] c = ChMinus -> "Minus"
      [] c = ChDot -> "Dot"
      [] c = ChComma -> "Comma"
      [] c = ChLeftSquareBracket -> "LeftSquareBracket"
      [] c = ChRightSquareBracket -> "RightSquareBracket"
      [] OTHER -> "panic"

\* input.chars().filter(..).map(..).collect()
scan(s) ==
    LET filtered == SelectSeq(s, ScanFilter)
    IN  [k \in 1..Len(filtered) |-> ScanMap(filtered[k])]

(* ---------------------------- sequences -------------------------------- *)
SeqsUpTo(S, n) == UNION {[1..k -> S] : k \in 0..n}

\* vec![0; n]: no cell holds a nonzero value
ZeroVec == [k \in {} |-> 0]

\* self.memory[k]
MemGet(m, k) == IF k \in DOMAIN m THEN m[k] ELSE 0

\* a store that zeroes every other cell
MemSet_Alone(m, k, v) == IF v = 0 THEN ZeroVec ELSE [x \in {k} |-> v]

\* self.memory[k] = v
MemSet(m, k, v) ==
    IF v = 0 THEN [x \in (DOMAIN m) \ {k} |-> m[x]]
    ELSE [x \in (DOMAIN m) \cup {k} |-> IF x = k THEN v ELSE m[x]]

\* An Option / Result is a sequence: <<>> for None / Err, <<x>> for Some(x) / Ok(x).

\* a pop whose None is replaced by a default index (unwrap_or_default)
Pop_OrDefault(v) == IF v = <<>> THEN <<0>> ELSE <<v[Len(v)]>>

\* Vec::pop: the value it returns and the vector it leaves
Pop(v) == IF v = <<>> THEN <<>> ELSE <<v[Len(v)]>>
PopVec(v) == SubSeq(v, 1, Len(v) - 1)

\* a lookup that reports Some at every index
GetIsSome_Always(v, k) == TRUE

\* Vec::get / Vec::get_mut at index k is Some
GetIsSome(v, k) == k < Len(v)

\* a read that hands out the back of the queue
Read_Back(q) == IF q = <<>> THEN <<>> ELSE <<q[Len(q)]>>

\* TestStdOut::read: pop_front().ok_or(..), and the queue it leaves
Read(q) == IF q = <<>> THEN <<>> ELSE <<Head(q)>>
ReadRest(q) == IF q = <<>> THEN <<>> ELSE Tail(q)

VARIABLES
    variant,       \* "lib" (src/src/lib.rs) or "main" (src/src/main.rs)
    pc,            \* "idle", "scanned", "compile", "returned", "run" or "panicked"
    panic_msg,     \* which unwrap panicked, "" while none did
    calls,         \* number of calls made on the Interpreter / Compiler
    tokens,        \* the Vec<Token> being compiled
    tok_pos,       \* number of tokens the iterator has yielded
    i,             \* the enumerate() index of the next retained token
    output,        \* the Vec<Bytecode> under construction
    loop_stack,    \* Compiler.loop_stack
    bytecodes,     \* the Vec<Bytecode> returned by the compiler / being run
    memory,        \* VirtualMachine.memory
    mem_pointer,   \* VirtualMachine.mem_pointer
    code_pointer,  \* VirtualMachine.code_pointer
    input,         \* TestStdOut.input
    out,           \* TestStdOut.output
    steps,         \* VM steps executed by the current run
    fetched,       \* code_pointer of the latest fetch of this run, -1 before it
    pushed,        \* the characters push_input was given (never changes)
    source,        \* the &str a direct call of scan was given
    twin           \* a VirtualMachine of main.rs with its test output buffer

vars == <<variant, pc, panic_msg, calls, tokens, tok_pos, i, output,
          loop_stack, bytecodes, memory, mem_pointer, code_pointer,
          input, out, steps, fetched, pushed, source, twin>>

compilerVars == <<tokens, tok_pos, i, output, loop_stack>>
vmVars == <<memory, mem_pointer, code_pointer>>
ioVars == <<input, out>>

(* --------------------------- construction ------------------------------ *)
\* Compiler::new, VirtualMachine::new and TestStdOut::new + push_input
InitCommon ==
    /\ pc = "idle"
    /\ panic_msg = ""
    /\ calls = 0
    /\ tokens = <<>>
    /\ tok_pos = 0
    /\ i = 0
    /\ output = <<>>
    /\ loop_stack = <<>>
    /\ bytecodes = <<>>
    /\ mem_pointer = 0
    /\ code_pointer = 0
    /\ out = <<>>
    /\ steps = 0
    /\ fetched = -1
    /\ source = <<>>
    /\ twin = [memory |-> ZeroVec, mem_pointer |-> 0, code_pointer |-> 0, buffer |-> <<>>]

\* Interpreter::new over a TestStdOut whose input was pushed beforehand
Init ==
    /\ InitCommon
    /\ variant = "lib"
    /\ memory = ZeroVec
    /\ input \in SeqsUpTo(InputChars, MaxInput)
    /\ pushed = input

(* ----------------------------- compiler -------------------------------- *)
\* entry of compile_bytecode(input): output = Vec::new(), the iterator at
\* the first token; loop_stack is whatever the Compiler holds
EnterCompile(toks) ==
    /\ calls < MaxCalls
    /\ calls' = calls + 1
    /\ tokens' = toks
    /\ tok_pos' = 0
    /\ i' = 0
    /\ output' = <<>>
    /\ bytecodes' = <<>>
    /\ pc' = "compile"
    /\ UNCHANGED <<variant, panic_msg, loop_stack, vmVars, ioVars, steps, fetched, pushed, source, twin>>

\* Interpreter::interpret: scan the source and call compile_bytecode
Interpret(src) ==
    /\ pc = "idle"
    /\ EnterCompile(scan(src))

\* test_helper and the tests of main.rs: scan the source and call
\* compile_bytecode of a new Compiler
TestHelper(src) ==
    /\ pc = "idle"
    /\ calls = 0
    /\ EnterCompile(scan(src))

\* a direct call of Compiler::compile_bytecode, as the tests make it
CompileBytecode(toks) ==
    /\ pc = "idle"
    /\ EnterCompile(toks)

\* the caller is done with the bytecode compile_bytecode returned
DropBytecode ==
    /\ pc = "returned"
    /\ pc' = "idle"
    /\ bytecodes' = <<>>
    /\ tokens' = <<>>
    /\ tok_pos' = 0
    /\ i' = 0
    /\ output' = <<>>
    /\ UNCHANGED <<variant, panic_msg, calls, loop_stack, vmVars, ioVars, steps, fetched, pushed, source, twin>>

\* a mapping that takes Comma for Dot
SimpleBytecode_CommaAsDot(t) ==
    CASE t = "GreaterThan" -> Op("IncrementPointer")
      [] t = "LessThan" -> Op("DecrementPointer")
      [] t = "Plus" -> Op("IncrementValue")
      [] t = "Minus" -> Op("DecrementValue")
      [] t = "Dot" -> Op("OutputValue")
      [] t = "Comma" -> Op("OutputValue")

\* the bytecode one token that is no bracket maps to
SimpleBytecode(t) ==
    CASE t = "GreaterThan" -> Op("IncrementPointer")
      [] t = "LessThan" -> Op("DecrementPointer")
      [] t = "Plus" -> Op("IncrementValue")
      [] t = "Minus" -> Op("DecrementValue")
      [] t = "Dot" -> Op("OutputValue")
      [] t = "Comma" -> Op("InputValue")

\* a patch that records the index one past the LoopEnd
PatchLoopStart_PastEnd(o, loop_start, idx) == [o EXCEPT ![loop_start + 1] = LoopStart(idx + 1)]

\* *output.get_mut(loop_start).unwrap() = Bytecode::LoopStart { jump_to: i }
PatchLoopStart(o, loop_start, idx) == [o EXCEPT ![loop_start + 1] = LoopStart(idx)]

\* one iteration of the for_each closure of compile_bytecode (with the
\* filter that drops Space before enumerate)
CompileToken ==
    /\ pc = "compile"
    /\ tok_pos < Len(tokens)
    /\ LET t == tokens[tok_pos + 1] IN
       CASE t = "Space" ->
              /\ tok_pos' = tok_pos + 1
              /\ UNCHANGED <<i, output, loop_stack, pc, panic_msg>>
         [] t = "LeftSquareBracket" ->
              /\ loop_stack' = Append(loop_stack, i)
              /\ output' = Append(output, LoopStart(0))
              /\ tok_pos' = tok_pos + 1
              /\ i' = i + 1
              /\ UNCHANGED <<pc, panic_msg>>
         [] t = "RightSquareBracket" ->
              IF Pop(loop_stack) = <<>>
              THEN /\ pc' = "panicked"
                   /\ panic_msg' = "pop_unwrap"
                   /\ UNCHANGED <<tok_pos, i, output, loop_stack>>
              ELSE LET loop_start == Pop(loop_stack)[1] IN
                   IF ~GetIsSome(output, loop_start)
                   THEN /\ pc' = "panicked"
                        /\ panic_msg' = "get_mut_unwrap"
                        /\ loop_stack' = PopVec(loop_stack)
                        /\ UNCHANGED <<tok_pos, i, output>>
                   ELSE /\ loop_stack' = PopVec(loop_stack)
                        /\ output' = Append(PatchLoopStart(output, loop_start, i),
                                            LoopEnd(loop_start))
                        /\ tok_pos' = tok_pos + 1
                        /\ i' = i + 1
                        /\ UNCHANGED <<pc, panic_msg>>
         [] OTHER ->
              /\ output' = Append(output, SimpleBytecode(t))
              /\ tok_pos' = tok_pos + 1
              /\ i' = i + 1
              /\ UNCHANGED <<loop_stack, pc, panic_msg>>
    /\ UNCHANGED <<variant, calls, tokens, bytecodes, vmVars, ioVars, steps, fetched, pushed, source, twin>>

\* compile_bytecode as one function of the token vector and of the
\* loop_stack the Compiler holds at the call: the for_each from the token at
\* tok (0-based) on, idx being the enumerate() index and o the output so
\* far.  The result tells whether the call returned or which unwrap
\* panicked and at which token, the output, and the loop_stack left behind.
RECURSIVE CompileFrom(_, _, _, _, _)
CompileFrom(toks, tok, idx, o, stack) ==
    IF tok = Len(toks)
    THEN [end |-> "returned", panic_msg |-> "", tok_pos |-> tok, output |-> o, loop_stack |-> stack]
    ELSE LET t == toks[tok + 1] IN
         CASE t = "Space" -> CompileFrom(toks, tok + 1, idx, o, stack)
           [] t = "LeftSquareBracket" ->
                CompileFrom(toks, tok + 1, idx + 1, Append(o, LoopStart(0)), Append(stack, idx))
           [] t = "RightSquareBracket" ->
                IF Pop(stack) = <<>>
                THEN [end |-> "panicked", panic_msg |-> "pop_unwrap", tok_pos |-> tok,
                      output |-> o, loop_stack |-> stack]
                ELSE LET loop_start == Pop(stack)[1] IN
                     IF ~GetIsSome(o, loop_start)
                     THEN [end |-> "panicked", panic_msg |-> "get_mut_unwrap", tok_pos |-> tok,
                           output |-> o, loop_stack |-> PopVec(stack)]
                     ELSE CompileFrom(toks, tok + 1, idx + 1,
                                      Append(PatchLoopStart(o, loop_start, idx), LoopEnd(loop_start)),
                                      PopVec(stack))
           [] OTHER ->
                CompileFrom(toks, tok + 1, idx + 1, Append(o, SimpleBytecode(t)), stack)

\* Compiler::new().compile_bytecode(toks)
CompileNew(toks) == CompileFrom(toks, 0, 0, <<>>, <<>>)

\* the iterator is exhausted: compile_bytecode returns output
CompileDone == pc = "compile" /\ tok_pos = Len(tokens)

\* compile_bytecode returns output and interpret hands it to self.vm.run
RunStart ==
    /\ CompileDone
    /\ bytecodes' = output
    /\ steps' = 0
    /\ fetched' = -1
    /\ pc' = "run"
    /\ UNCHANGED <<variant, panic_msg, calls, compilerVars, vmVars, ioVars, pushed, source, twin>>

\* compile_bytecode returns output to a caller that holds it
CompileReturn ==
    /\ CompileDone
    /\ bytecodes' = output
    /\ pc' = "returned"
    /\ UNCHANGED <<variant, panic_msg, calls, compilerVars, vmVars, ioVars, steps, fetched, pushed, source, twin>>

\* VirtualMachine::new(io) followed by vm.run(res), as test_helper and the
\* tests of main.rs do with the bytecode the compiler returned
RunNew ==
    /\ pc = "returned"
    /\ memory' = ZeroVec
    /\ mem_pointer' = 0
    /\ code_pointer' = 0
    /\ steps' = 0
    /\ fetched' = -1
    /\ pc' = "run"
    /\ UNCHANGED <<variant, panic_msg, calls, compilerVars, bytecodes, ioVars, pushed, source, twin>>

(* ------------------------- virtual machine ----------------------------- *)
\* a decrement that saturates at 0 (u8::saturating_sub)
OverflowingSub1_Saturating(v) == IF v = 0 THEN 0 ELSE v - 1

\* an increment that saturates at 255 (u8::saturating_add)
OverflowingAdd1_Saturating(v) == IF v = U8Modulus - 1 THEN v ELSE v + 1

\* u8::overflowing_add(1).0 and u8::overflowing_sub(1).0
OverflowingAdd1(v) == (v + 1) % U8Modulus
OverflowingSub1(v) == (v + U8Modulus - 1) % U8Modulus

\* a conversion that keeps the low seven bits only
CharAsU8_SevenBit(c) == c % 128

\* a conversion that saturates at 255
CharAsU8_Saturating(c) == IF c >= U8Modulus THEN U8Modulus - 1 ELSE c

\* char as u8
CharAsU8(c) == c % U8Modulus

\* pointer moves that stop at the ends of the tape instead of wrapping
IncrementPointer_NoWrap(mp, len) == IF mp = len - 1 THEN mp ELSE mp + 1

IncrementPointer(mp, len) == IF mp = len - 1 THEN 0 ELSE mp + 1
DecrementPointer(mp, len) == IF mp = 0 THEN len - 1 ELSE mp - 1

\* a LoopStart whose jump lands one past the command after the LoopEnd
LoopStartNext_PastNext(cell, jump_to, cp) == (IF cell = 0 THEN jump_to + 1 ELSE cp) + 1

\* the code pointer after a LoopStart / LoopEnd: the conditional jump of
\* the match arm followed by self.code_pointer += 1
LoopStartNext(cell, jump_to, cp) == (IF cell = 0 THEN jump_to ELSE cp) + 1

\* a LoopEnd that never jumps back
LoopEndNext_FallsThrough(cell, jump_to, cp) == cp + 1

LoopEndNext(cell, jump_to, cp) == (IF cell # 0 THEN jump_to ELSE cp) + 1

\* an InputValue that stores 0 when the read fails
InputStore_ZeroOnErr(m, mp, r) == MemSet(m, mp, IF r # <<>> THEN CharAsU8(r[1]) ELSE 0)

\* if let Ok(c) = self.io.read() { self.memory[self.mem_pointer] = c as u8; }
InputStore(m, mp, r) == IF r # <<>> THEN MemSet(m, mp, CharAsU8(r[1])) ELSE m

\* a fetch that fails already at the last bytecode
Fetch_NotTheLast == code_pointer + 1 < Len(bytecodes)

\* bytecodes.get(self.code_pointer) is Some
Fetch == GetIsSome(bytecodes, code_pointer)

\* self.memory.len()
MemoryLen == IF variant = "lib" THEN LibMemorySize ELSE MainMemorySize

\* self.memory[self.mem_pointer]
Cell == MemGet(memory, mem_pointer)

\* one iteration of the loop of run in which the fetch succeeds, of a run
\* that is followed for at most bound steps
StepWithin(bound) ==
    /\ pc = "run"
    /\ Fetch
    /\ steps < bound
    /\ steps' = steps + 1
    /\ fetched' = code_pointer
    /\ LET bytecode == bytecodes[code_pointer + 1] IN
       CASE bytecode.op = "IncrementPointer" ->
              /\ mem_pointer' = IncrementPointer(mem_pointer, MemoryLen)
              /\ code_pointer' = code_pointer + 1
              /\ UNCHANGED <<memory, ioVars>>
         [] bytecode.op = "DecrementPointer" ->
              /\ mem_pointer' = DecrementPointer(mem_pointer, MemoryLen)
              /\ code_pointer' = code_pointer + 1
              /\ UNCHANGED <<memory, ioVars>>
         [] bytecode.op = "IncrementValue" ->
              /\ memory' = MemSet(memory, mem_pointer, OverflowingAdd1(Cell))
              /\ code_pointer' = code_pointer + 1
              /\ UNCHANGED <<mem_pointer, ioVars>>
         [] bytecode.op = "DecrementValue" ->
              /\ memory' = MemSet(memory, mem_pointer, OverflowingSub1(Cell))
              /\ code_pointer' = code_pointer + 1
              /\ UNCHANGED <<mem_pointer, ioVars>>
         [] bytecode.op = "OutputValue" ->
              /\ out' = Append(out, Cell)
              /\ code_pointer' = code_pointer + 1
              /\ UNCHANGED <<memory, mem_pointer, input>>
         [] bytecode.op = "InputValue" ->
              /\ IF variant = "lib"
                 THEN /\ memory' = InputStore(memory, mem_pointer, Read(input))
                      /\ input' = ReadRest(input)
                 ELSE UNCHANGED <<memory, input>>
              /\ code_pointer' = code_pointer + 1
              /\ UNCHANGED <<mem_pointer, out>>
         [] bytecode.op = "LoopStart" ->
              /\ code_pointer' = LoopStartNext(Cell, bytecode.jump_to, code_pointer)
              /\ UNCHANGED <<memory, mem_pointer, ioVars>>
         [] bytecode.op = "LoopEnd" ->
              /\ code_pointer' = LoopEndNext(Cell, bytecode.jump_to, code_pointer)
              /\ UNCHANGED <<memory, mem_pointer, ioVars>>
    /\ UNCHANGED <<variant, pc, panic_msg, calls, compilerVars, bytecodes, pushed, source>>

Step == StepWithin(MaxSteps) /\ UNCHANGED twin

(* -------------------- the virtual machine of main.rs ------------------- *)
\* a print that puts the character in front of the buffer
MainPrint_Front(buffer, c) == <<c>> \o buffer

\* TestStdOut::print of main.rs: self.buffer.push(c)
MainPrint(buffer, c) == Append(buffer, c)

\* bytecodes.get(self.code_pointer) is Some, in the run of main.rs
MainFetch(vm, bc) == GetIsSome(bc, vm.code_pointer)

\* one iteration of the loop of run of main.rs in which the fetch succeeds
MainRunStep(vm, bc) ==
    LET bytecode == bc[vm.code_pointer + 1]
        cell == MemGet(vm.memory, vm.mem_pointer)
    IN  CASE bytecode.op = "IncrementPointer" ->
               [vm EXCEPT !.mem_pointer = IncrementPointer(@, MainMemorySize),
                          !.code_pointer = @ + 1]
          [] bytecode.op = "DecrementPointer" ->
               [vm EXCEPT !.mem_pointer = DecrementPointer(@, MainMemorySize),
                          !.code_pointer = @ + 1]
          [] bytecode.op = "IncrementValue" ->
               [vm EXCEPT !.memory = MemSet(@, vm.mem_pointer, OverflowingAdd1(cell)),
                          !.code_pointer = @ + 1]
          [] bytecode.op = "DecrementValue" ->
               [vm EXCEPT !.memory = MemSet(@, vm.mem_pointer, OverflowingSub1(cell)),
                          !.code_pointer = @ + 1]
          [] bytecode.op = "OutputValue" ->
               [vm EXCEPT !.buffer = MainPrint(@, cell),
                          !.code_pointer = @ + 1]
          [] bytecode.op = "InputValue" ->
               [vm EXCEPT !.code_pointer = @ + 1]
          [] bytecode.op = "LoopStart" ->
               [vm EXCEPT !.code_pointer = LoopStartNext(cell, bytecode.jump_to, @)]
          [] bytecode.op = "LoopEnd" ->
               [vm EXCEPT !.code_pointer = LoopEndNext(cell, bytecode.jump_to, @)]

\* the same bytecode run on the VM of lib.rs and on a VM of main.rs, one
\* iteration of each loop at a time; a VM whose fetch fails stays as it is
LockstepStep ==
    /\ StepWithin(MaxSteps)
    /\ twin' = IF MainFetch(twin, bytecodes) THEN MainRunStep(twin, bytecodes) ELSE twin

\* the fetch fails: run breaks out of its loop and interpret returns
Halt ==
    /\ pc = "run"
    /\ ~Fetch
    /\ pc' = "idle"
    /\ bytecodes' = <<>>
    /\ tokens' = <<>>
    /\ tok_pos' = 0
    /\ i' = 0
    /\ output' = <<>>
    /\ steps' = 0
    /\ fetched' = -1
    /\ UNCHANGED <<variant, panic_msg, calls, loop_stack, vmVars, ioVars, pushed, source, twin>>

\* the source strings test_helper and the first interpret call are given
Sources == SeqsUpTo(SourceChars, MaxLen)

\* the source strings a later interpret call is given
LaterSources == SeqsUpTo(SourceChars, MaxLenLater)

\* the source strings the calls on a reused Interpreter are given: every
\* short one, and the two programs `+.[.` (which leaves its `[` open) and
\* `[-[]]]` (which has one `]` too many)
OpenLoopSource == <<ChPlus, ChDot, ChLeftSquareBracket, ChDot>>
ExtraCloseSource == <<ChLeftSquareBracket, ChMinus, ChLeftSquareBracket,
                      ChRightSquareBracket, ChRightSquareBracket, ChRightSquareBracket>>
ReuseSources == SeqsUpTo(SourceChars, MaxLenShort) \cup {OpenLoopSource, ExtraCloseSource}

\* the token vectors the first and a later compile_bytecode call are given
TokenVecs == SeqsUpTo(Token, MaxLen)
LaterTokenVecs == SeqsUpTo(Token, MaxVecLater)

InterpretCall ==
    /\ pc = "idle"
    /\ calls < MaxCalls
    /\ \E src \in (IF calls = 0 THEN Sources ELSE LaterSources) : Interpret(src)

CompileCall ==
    /\ pc = "idle"
    /\ calls < MaxCalls
    /\ \E toks \in (IF calls = 0 THEN TokenVecs ELSE LaterTokenVecs) : CompileBytecode(toks)

TestHelperCall ==
    /\ pc = "idle"
    /\ calls = 0
    /\ \E src \in Sources : TestHelper(src)

\* one Interpreter over a test io, interpret called on it repeatedly
Next ==
    \/ InterpretCall
    \/ CompileToken
    \/ RunStart
    \/ Step
    \/ Halt

Spec == Init /\ [][Next]_vars

\* one Interpreter over a test io, every interpret call on it given one of
\* the sources of ReuseSources
InterpretAgainCall ==
    /\ pc = "idle"
    /\ calls < MaxCalls
    /\ \E src \in ReuseSources : Interpret(src)

NextReuse ==
    \/ InterpretAgainCall
    \/ CompileToken
    \/ RunStart
    \/ Step
    \/ Halt

SpecReuse == Init /\ [][NextReuse]_vars

\* one Compiler on its own, compile_bytecode called on it repeatedly with
\* token vectors, as the test token_to_bytescodes calls it
InitCompiler ==
    /\ InitCommon
    /\ variant = "lib"
    /\ memory = ZeroVec
    /\ input = <<>>
    /\ pushed = <<>>

NextCompiler ==
    \/ CompileCall
    \/ CompileToken
    \/ CompileReturn
    \/ DropBytecode

SpecCompiler == InitCompiler /\ [][NextCompiler]_vars

\* one test: a source scanned, compiled by a new Compiler and run on a new
\* VM, that of lib.rs over a test io or that of main.rs (which reads no
\* input)
InitVM ==
    /\ InitCommon
    /\ variant \in {"lib", "main"}
    /\ memory = ZeroVec
    /\ input \in (IF variant = "lib" THEN SeqsUpTo(InputChars, MaxInput) ELSE {<<>>})
    /\ pushed = input

NextVM ==
    \/ TestHelperCall
    \/ CompileToken
    \/ CompileReturn
    \/ RunNew
    \/ Step
    \/ Halt

SpecVM == InitVM /\ [][NextVM]_vars

\* the characters the strings given to scan are drawn from: the sources'
\* ones, the line feed of the hello_world sources, 'a' and U+0141
ChLineFeed == 10
ChLowerA == 97
ScanChars == SourceChars \cup {ChLineFeed, ChLowerA, 321}
ScanInputs == SeqsUpTo(ScanChars, MaxLen)

\* a direct call of scan, as the test scan_codes makes it
Scan(s) ==
    /\ pc = "idle"
    /\ source' = s
    /\ tokens' = scan(s)
    /\ pc' = "scanned"
    /\ UNCHANGED <<variant, panic_msg, calls, tok_pos, i, output, loop_stack,
                   bytecodes, vmVars, ioVars, steps, fetched, pushed, twin>>

ScanCall ==
    /\ pc = "idle"
    /\ \E s \in ScanInputs : Scan(s)

\* the caller is done with the tokens scan returned
DropTokens ==
    /\ pc = "scanned"
    /\ pc' = "idle"
    /\ source' = <<>>
    /\ tokens' = <<>>
    /\ UNCHANGED <<variant, panic_msg, calls, tok_pos, i, output, loop_stack,
                   bytecodes, vmVars, ioVars, steps, fetched, pushed, twin>>

NextScanner ==
    \/ ScanCall
    \/ DropTokens

SpecScanner == InitCompiler /\ [][NextScanner]_vars

\* 'H', the input character of the test test_io
ChH == 72

\* the source strings and the pushed inputs of the tests about input and
\* output: programs made of `,`, `.` and `>`; every single byte, and the
\* short strings over 'A', 'H' and U+0141
IOSources == SeqsUpTo({ChComma, ChDot, ChGreaterThan}, MaxLen)
IOInputs == {<<b>> : b \in 0..(U8Modulus - 1)} \cup SeqsUpTo(InputChars \cup {ChH}, MaxInput + 1)

\* one test like test_io: test_helper over a test io whose input was pushed
InitIO ==
    /\ InitCommon
    /\ variant = "lib"
    /\ memory = ZeroVec
    /\ input \in IOInputs
    /\ pushed = input

IOTestCall ==
    /\ pc = "idle"
    /\ calls = 0
    /\ \E src \in IOSources : TestHelper(src)

NextIO ==
    \/ IOTestCall
    \/ CompileToken
    \/ CompileReturn
    \/ RunNew
    \/ Step
    \/ Halt

SpecIO == InitIO /\ [][NextIO]_vars

\* the sources of the tests basis_interpreter_test and hello_world (the
\* same strings in lib.rs and in main.rs), character by character:
\* `++++++++ [>++++++++++++>+++++++++++++<<-] >++++. -. >+++++++. <+. +.`
\* and the thirteen lines that start with `>++++++++[-<+++++++++>]<.`
DcodeSource ==
    <<43, 43, 43, 43, 43, 43, 43, 43, 32, 91, 62, 43, 43, 43, 43, 43,
      43, 43, 43, 43, 43, 43, 43, 62, 43, 43, 43, 43, 43, 43, 43, 43,
      43, 43, 43, 43, 43, 60, 60, 45, 93, 32, 62, 43, 43, 43, 43, 46,
      32, 45, 46, 32, 62, 43, 43, 43, 43, 43, 43, 43, 46, 32, 60, 43,
      46, 32, 43, 46>>

HelloWorldSource ==
    <<10, 62, 43, 43, 43, 43, 43, 43, 43, 43, 91, 45, 60, 43, 43, 43,
      43, 43, 43, 43, 43, 43, 62, 93, 60, 46, 10, 62, 62, 43, 62, 45,
      91, 43, 93, 43, 43, 62, 43, 43, 62, 43, 43, 43, 91, 62, 91, 45,
      62, 43, 43, 43, 60, 60, 43, 43, 43, 62, 93, 60, 60, 93, 62, 45,
      45, 45, 45, 45, 46, 10, 62, 45, 62, 43, 43, 43, 46, 46, 10, 43,
      43, 43, 46, 10, 62, 45, 46, 10, 60, 60, 43, 91, 62, 91, 43, 62,
      43, 93, 62, 62, 93, 60, 45, 45, 45, 45, 45, 45, 45, 45, 45, 45,
      45, 45, 45, 45, 46, 10, 62, 62, 46, 10, 43, 43, 43, 46, 10, 45,
      45, 45, 45, 45, 45, 46, 10, 45, 45, 45, 45, 45, 45, 45, 45, 46,
      10, 62, 43, 46, 10, 62, 43, 46, 10>>

ProgramSources == {DcodeSource, HelloWorldSource}

\* one of these tests: the source scanned, compiled by a new Compiler and
\* run on a new VM of lib.rs or of main.rs, with no input
InitPrograms ==
    /\ InitCommon
    /\ variant \in {"lib", "main"}
    /\ memory = ZeroVec
    /\ input = <<>>
    /\ pushed = <<>>

ProgramTestCall ==
    /\ pc = "idle"
    /\ calls = 0
    /\ \E src \in ProgramSources : TestHelper(src)

ProgramStep == StepWithin(MaxProgramSteps) /\ UNCHANGED twin

NextPrograms ==
    \/ ProgramTestCall
    \/ CompileToken
    \/ CompileReturn
    \/ RunNew
    \/ ProgramStep
    \/ Halt

SpecPrograms == InitPrograms /\ [][NextPrograms]_vars

\* one source compiled by a new Compiler and run on a new VM of lib.rs
\* over a test io and, in lockstep, on a new VM of main.rs
NextLockstep ==
    \/ TestHelperCall
    \/ CompileToken
    \/ CompileReturn
    \/ RunNew
    \/ LockstepStep
    \/ Halt

SpecLockstep == Init /\ [][NextLockstep]_vars

TypeOK ==
    /\ pc \in {"idle", "scanned", "compile", "returned", "run", "panicked"}
    /\ mem_pointer \in 0..(MemoryLen - 1)
    /\ DOMAIN memory \subseteq 0..(MemoryLen - 1)
    /\ \A k \in DOMAIN memory : memory[k] \in 1..(U8Modulus - 1)

(* ------------------- vocabulary of the properties ---------------------- *)
\* Reading toks from index k with d brackets open: the number of brackets
\* left open at the end, or -1 when a `]` is reached while none is open.
RECURSIVE BracketScan(_, _, _)
BracketScan(toks, k, d) ==
    IF k > Len(toks) THEN d
    ELSE IF toks[k] = "LeftSquareBracket" THEN BracketScan(toks, k + 1, d + 1)
    ELSE IF toks[k] = "RightSquareBracket"
         THEN (IF d = 0 THEN -1 ELSE BracketScan(toks, k + 1, d - 1))
    ELSE BracketScan(toks, k + 1, d)

BracketDepth(toks) == BracketScan(toks, 1, 0)

WellBracketed(toks) == BracketDepth(toks) = 0
UnclosedAtEnd(toks) == BracketDepth(toks) > 0
CloseWithoutOpen(toks) == BracketDepth(toks) = -1

\* the number of tokens before the first `]` that is reached while no `[`
\* is open (only used when there is one)
FirstUnmatchedClose(toks) ==
    CHOOSE n \in 0..(Len(toks) - 1) :
        /\ toks[n + 1] = "RightSquareBracket"
        /\ BracketDepth(SubSeq(toks, 1, n)) = 0
        /\ \A m \in 0..n : BracketDepth(SubSeq(toks, 1, m)) >= 0

\* the compiler was newly constructed when the current call entered it
NewCompiler == calls = 1

\* compile_bytecode has returned bytecodes for the current tokens
Returned == pc \in {"returned", "run"}

\* every loop bytecode of bc points at its partner, which points back
JumpsPaired(bc) ==
    \A k \in 0..(Len(bc) - 1) :
        LET b == bc[k + 1] IN
        /\ b.op = "LoopStart" =>
             /\ k < b.jump_to
             /\ b.jump_to < Len(bc)
             /\ bc[b.jump_to + 1] = LoopEnd(k)
        /\ b.op = "LoopEnd" =>
             /\ b.jump_to < k
             /\ bc[b.jump_to + 1] = LoopStart(k)

(* ------------------------------- C1 ------------------------------------ *)
\* C1: a newly constructed Compiler compiling a well-bracketed token
\* sequence does not fail, and in the bytecode it returns every LoopStart
\* at i with jump_to = j has LoopEnd{jump_to = i} at j, every LoopEnd at j
\* with jump_to = i has LoopStart{jump_to = j} at i, and i < j.
C1_BracketMatchingSound ==
    (NewCompiler /\ WellBracketed(tokens)) =>
        /\ pc # "panicked"
        /\ Returned => JumpsPaired(bytecodes)

\* a nested pair of loops with a Space among the tokens was compiled
C1_Witness ==
    /\ NewCompiler
    /\ pc = "returned"
    /\ WellBracketed(tokens)
    /\ \E k \in 1..Len(tokens) : tokens[k] = "Space"
    /\ \E k \in 1..Len(bytecodes) :
         /\ bytecodes[k].op = "LoopStart"
         /\ bytecodes[k].jump_to > k

(* ------------------------------- C2 ------------------------------------ *)
\* C2: a newly constructed Compiler given a token sequence that ends with
\* a `[` still unclosed fails and returns no bytecode sequence.
C2_UnclosedBracketFails ==
    (NewCompiler /\ UnclosedAtEnd(tokens)) => ~Returned

(* ------------------------------- C3 ------------------------------------ *)
\* C3: a newly constructed Compiler given a token sequence in which a `]`
\* is reached while no `[` is open fails at that token (the unwrap of the
\* empty pop) and returns no bytecode sequence: it never gets past that
\* token, it can always take its next step, and that step at that token
\* is the failure.
C3_UnmatchedCloseFails ==
    (NewCompiler /\ CloseWithoutOpen(tokens)) =>
        /\ pc \in {"compile", "panicked"}
        /\ tok_pos <= FirstUnmatchedClose(tokens)
        /\ pc = "compile" => ENABLED CompileToken
        /\ pc = "panicked" =>
             /\ tok_pos = FirstUnmatchedClose(tokens)
             /\ panic_msg = "pop_unwrap"
             /\ bytecodes = <<>>

\* the failure happened at a `]` reached after other tokens were compiled
C3_Witness ==
    /\ NewCompiler
    /\ pc = "panicked"
    /\ CloseWithoutOpen(tokens)
    /\ tok_pos >= 2
    /\ tokens[tok_pos + 1] = "RightSquareBracket"
    /\ output # <<>>

(* --------------------- vocabulary of the VM steps ---------------------- *)
\* this step is an iteration of the loop of run whose fetch succeeded
StepTaken == pc = "run" /\ steps' = steps + 1

\* this step executes a bytecode of the given variant
Executing(name) == StepTaken /\ bytecodes[code_pointer + 1].op = name

\* the variant of the bytecode the latest step of this run executed
FetchedOp == IF fetched = -1 THEN "none" ELSE bytecodes[fetched + 1].op

\* the tokens that compile_bytecode retains, in order: the one at index k
\* (0-based) is the one the bytecode at index k was made from
Retained(toks) == SelectSeq(toks, LAMBDA t : t # "Space")

\* the index of the `]` that closes the `[` at index k - 1 when d brackets
\* are open at index k, -1 if there is none
RECURSIVE EndScan(_, _, _)
EndScan(toks, k, d) ==
    IF k >= Len(toks) THEN -1
    ELSE IF toks[k + 1] = "LeftSquareBracket" THEN EndScan(toks, k + 1, d + 1)
    ELSE IF toks[k + 1] = "RightSquareBracket"
         THEN (IF d = 1 THEN k ELSE EndScan(toks, k + 1, d - 1))
    ELSE EndScan(toks, k + 1, d)

\* the index of the `]` matching the `[` at index k, -1 if there is none
MatchingEnd(toks, k) ==
    IF toks[k + 1] = "LeftSquareBracket" THEN EndScan(toks, k + 1, 1) ELSE -1

\* the index of the `[` matching the `]` at index k, -1 if there is none
MatchingStart(toks, k) ==
    IF \E n \in 0..(k - 1) : MatchingEnd(toks, n) = k
    THEN CHOOSE n \in 0..(k - 1) : MatchingEnd(toks, n) = k
    ELSE -1

(* ------------------------------- C4 ------------------------------------ *)
\* C4: while interpret works on a source whose brackets are unmatched, no
\* VM step happens: the tape, the data pointer, the code pointer, the
\* input and the output all stay as they are.
C4_NoStepOnUnmatched ==
    [][~WellBracketed(tokens) => UNCHANGED <<memory, mem_pointer, code_pointer, input, out>>]_vars

(* ------------------------------- C5 ------------------------------------ *)
\* C5: a step executing the LoopStart at i, made from a `[` whose matching
\* `]` made the LoopEnd at j, leaves the code pointer at j + 1 if the
\* current cell is 0 and at i + 1 otherwise; a step executing that LoopEnd
\* leaves it at i + 1 if the current cell is nonzero and at j + 1 otherwise.
C5_LoopJumps ==
    [][/\ (Executing("LoopStart") /\ MatchingEnd(Retained(tokens), code_pointer) # -1) =>
            code_pointer' = IF Cell = 0 THEN MatchingEnd(Retained(tokens), code_pointer) + 1
                            ELSE code_pointer + 1
       /\ (Executing("LoopEnd") /\ MatchingStart(Retained(tokens), code_pointer) # -1) =>
            code_pointer' = IF Cell # 0 THEN MatchingStart(Retained(tokens), code_pointer) + 1
                            ELSE code_pointer + 1
      ]_vars

(* ------------------------------- C6 ------------------------------------ *)
\* C6: a later interpret call on the same Interpreter starts its run as a
\* new Interpreter would: zeroed tape, data pointer 0, code pointer 0.
C6_LaterRunStartsFresh ==
    (pc = "run" /\ steps = 0 /\ calls >= 2) =>
        (memory = ZeroVec /\ mem_pointer = 0 /\ code_pointer = 0)

(* ------------------------------- C7 ------------------------------------ *)
\* C7: while a new VM runs bytecode the compiler returned, code_pointer
\* stays in 0..len(bytecode); run can stop exactly when code_pointer is
\* len(bytecode), and at every smaller code_pointer it executes a step.
C7_CodePointerInRange ==
    pc = "run" =>
        /\ code_pointer \in 0..Len(bytecodes)
        /\ ENABLED Halt <=> code_pointer = Len(bytecodes)
        /\ ENABLED Step <=> (code_pointer < Len(bytecodes) /\ steps < MaxSteps)

\* the run is about to stop after a LoopStart jumped over its loop to
\* the end of the bytecode
C7_Witness ==
    /\ pc = "run"
    /\ FetchedOp = "LoopStart"
    /\ code_pointer = Len(bytecodes)
    /\ fetched + 1 < code_pointer

(* ------------------------------- C8 ------------------------------------ *)
\* C8: the data pointer is always in [0, tape_length); IncrementPointer
\* moves it to (p + 1) mod tape_length and DecrementPointer to
\* (p - 1) mod tape_length, on the 3000-cell tape and on the 30-cell tape.
C8_PointerWraps ==
    /\ [](mem_pointer \in 0..(MemoryLen - 1))
    /\ [](MemoryLen = IF variant = "lib" THEN 3000 ELSE 30)
    /\ [][/\ Executing("IncrementPointer") =>
               mem_pointer' = (mem_pointer + 1) % MemoryLen
          /\ Executing("DecrementPointer") =>
               mem_pointer' = (mem_pointer + MemoryLen - 1) % MemoryLen
         ]_vars

\* on the 30-cell tape `<` has moved the pointer from 0 to 29 and `>` has
\* moved it from 29 back to 0
C8_Witness ==
    /\ variant = "main"
    /\ pc = "run"
    /\ steps = 2
    /\ bytecodes = <<Op("DecrementPointer"), Op("IncrementPointer")>>
    /\ mem_pointer = 0

(* ------------------------------- C9 ------------------------------------ *)
\* C9: every cell always holds a value in 0..255; IncrementValue sets the
\* current cell to (v + 1) mod 256 and DecrementValue to (v - 1) mod 256,
\* and both can always be executed.
C9_CellWraps ==
    /\ [](\A k \in DOMAIN memory : memory[k] \in 0..255)
    /\ []((pc = "run" /\ Fetch /\ steps < MaxSteps
             /\ bytecodes[code_pointer + 1].op \in {"IncrementValue", "DecrementValue"})
            => ENABLED Step)
    /\ [][/\ Executing("IncrementValue") =>
               MemGet(memory', mem_pointer) = (Cell + 1) % 256
          /\ Executing("DecrementValue") =>
               MemGet(memory', mem_pointer) = (Cell + 255) % 256
         ]_vars

\* `-` has taken a cell from 0 to 255 and `+` has taken it from 255 to 0
C9_Witness ==
    /\ pc = "run"
    /\ steps = 2
    /\ bytecodes = <<Op("DecrementValue"), Op("IncrementValue")>>
    /\ memory = ZeroVec

(* ------------------------------- C10 ----------------------------------- *)
\* C10: an InputValue executed when the input is exhausted leaves the tape
\* and the data pointer as they are and moves the code pointer on by 1,
\* the run going on; the program `,,.` with the input "A" ends its run
\* with the output "A".
C10_InputExhaustion ==
    /\ [][(Executing("InputValue") /\ variant = "lib" /\ Read(input) = <<>>) =>
             /\ memory' = memory
             /\ mem_pointer' = mem_pointer
             /\ code_pointer' = code_pointer + 1
             /\ pc' = "run"
         ]_vars
    /\ []((/\ pc = "run"
           /\ calls = 1
           /\ tokens = <<"Comma", "Comma", "Dot">>
           /\ pushed = <<65>>)
          => /\ ENABLED Step \/ ENABLED Halt
             /\ ENABLED Halt => out = <<65>>)

\* `,,.` with the input "A" has run to its end
C10_Witness ==
    /\ pc = "run"
    /\ calls = 1
    /\ tokens = <<"Comma", "Comma", "Dot">>
    /\ pushed = <<65>>
    /\ steps = 3
    /\ ~Fetch
    /\ out = <<65>>

(* ------------------------------- C11 ----------------------------------- *)
\* C11: the program `,.` run on a new VM whose first input character is a
\* byte b in 0..255 stores b in cell 0 with its first step, has written
\* exactly the one character b after its second step, and then halts.
C11_Echo ==
    (/\ pc = "run"
     /\ tokens = <<"Comma", "Dot">>
     /\ pushed # <<>>
     /\ pushed[1] \in 0..255) =>
        /\ ENABLED Step \/ ENABLED Halt
        /\ steps >= 1 => (MemGet(memory, 0) = pushed[1] /\ mem_pointer = 0)
        /\ steps < 2 => out = <<>>
        /\ steps = 2 => out = <<pushed[1]>>
        /\ ENABLED Halt <=> steps = 2

\* `,.` has echoed the byte 200 and is about to halt
C11_Witness ==
    /\ pc = "run"
    /\ tokens = <<"Comma", "Dot">>
    /\ pushed = <<200>>
    /\ ~Fetch
    /\ MemGet(memory, 0) = 200
    /\ out = <<200>>

(* ------------------------------- C12 ----------------------------------- *)
\* the token each of the eight instruction characters stands for
TokenOfChar(c) ==
    CASE c = 62 -> "GreaterThan"
      [] c = 60 -> "LessThan"
      [] c = 43 -> "Plus"
      [] c = 45 -> "Minus"
      [] c = 46 -> "Dot"
      [] c = 44 -> "Comma"
      [] c = 91 -> "LeftSquareBracket"
      [] c = 93 -> "RightSquareBracket"

\* the positions of s that hold one of the eight instruction characters
InstructionPositions(s) ==
    {p \in 1..Len(s) : s[p] \in {62, 60, 43, 45, 46, 44, 91, 93}}

\* the k-th smallest position of P
NthPosition(P, k) == CHOOSE p \in P : Cardinality({q \in P : q <= p}) = k

\* C12: scan(s) does not fail and returns one token per character of s
\* that is one of `> < + - . , [ ]`, the k-th token being the token of the
\* k-th such character; other characters give nothing, and neither Space
\* nor the panic of the map closure ever comes out.
C12_ScanFilters ==
    pc = "scanned" =>
        /\ Len(tokens) = Cardinality(InstructionPositions(source))
        /\ \A k \in 1..Len(tokens) :
              /\ tokens[k] = TokenOfChar(source[NthPosition(InstructionPositions(source), k)])
              /\ tokens[k] \in Token \ {"Space"}

\* a string with a space, a letter and a line feed between instruction
\* characters, a `,` among them, was scanned
C12_Witness ==
    /\ pc = "scanned"
    /\ Len(source) = 4
    /\ tokens = <<"Comma", "LeftSquareBracket">>
    /\ source[1] = ChComma
    /\ source[2] \in {ChSpace, ChLowerA, ChLineFeed, 321}
    /\ source[3] \in {ChSpace, ChLowerA, ChLineFeed, 321}

(* ------------------------------- C13 ----------------------------------- *)
\* every LoopStart and LoopEnd of bc holds an index of bc
JumpsInRange(bc) ==
    \A k \in 1..Len(bc) :
        bc[k].op \in {"LoopStart", "LoopEnd"} => bc[k].jump_to \in 0..(Len(bc) - 1)

\* C13: in every bytecode sequence compile_bytecode returns, from a new
\* Compiler or from one used before, every jump_to is an index of that
\* sequence.
C13_JumpsInRange ==
    Returned => JumpsInRange(bytecodes)

\* a Compiler used before returned a sequence whose `]` was paired with
\* an index an earlier call had left on loop_stack
C13_Witness ==
    /\ pc = "returned"
    /\ calls = 2
    /\ CloseWithoutOpen(tokens)
    /\ \E k \in 1..Len(bytecodes) : bytecodes[k].op = "LoopEnd"

(* ------------------------------- C14 ----------------------------------- *)
\* C14: the run of the dcode program on a new VM with no input, of
\* lib.rs or of main.rs, can always go on until it halts, which it does
\* within MaxProgramSteps steps, and when it halts the output is exactly
\* the characters d, c, o, d, e.
C14_Dcode ==
    (pc = "run" /\ tokens = scan(DcodeSource)) =>
        /\ ENABLED ProgramStep \/ ENABLED Halt
        /\ ENABLED Halt => out = <<100, 99, 111, 100, 101>>

\* the dcode program has halted on the 30-cell VM with its five characters
C14_Witness ==
    /\ pc = "run"
    /\ variant = "main"
    /\ tokens = scan(DcodeSource)
    /\ ~Fetch
    /\ steps > Len(bytecodes)
    /\ out = <<100, 99, 111, 100, 101>>

(* ------------------------------- C15 ----------------------------------- *)
\* C15: the run of the hello_world program on a new VM with no input, of
\* lib.rs or of main.rs, can always go on until it halts, which it does
\* within MaxProgramSteps steps, and when it halts the output is exactly
\* "Hello World!" followed by a line feed.
C15_HelloWorld ==
    (pc = "run" /\ tokens = scan(HelloWorldSource)) =>
        /\ ENABLED ProgramStep \/ ENABLED Halt
        /\ ENABLED Halt =>
             out = <<72, 101, 108, 108, 111, 32, 87, 111, 114, 108, 100, 33, 10>>

\* the hello_world program has halted on the 3000-cell VM with its
\* thirteen characters
C15_Witness ==
    /\ pc = "run"
    /\ variant = "lib"
    /\ tokens = scan(HelloWorldSource)
    /\ ~Fetch
    /\ Len(out) = 13
    /\ out[1] = ChH
    /\ out[13] = ChLineFeed

(* ------------------------------- C16 ----------------------------------- *)
\* the bytecode variant each retained token stands for
VariantOf(t) ==
    CASE t = "GreaterThan" -> "IncrementPointer"
      [] t = "LessThan" -> "DecrementPointer"
      [] t = "Plus" -> "IncrementValue"
      [] t = "Minus" -> "DecrementValue"
      [] t = "Dot" -> "OutputValue"
      [] t = "Comma" -> "InputValue"
      [] t = "LeftSquareBracket" -> "LoopStart"
      [] t = "RightSquareBracket" -> "LoopEnd"

\* C16: what a newly constructed Compiler returns has one bytecode per
\* token that is not Space, and the bytecode at index i is the variant of
\* the i-th of these tokens.
C16_OneBytecodePerToken ==
    (NewCompiler /\ Returned) =>
        /\ Len(bytecodes) = Len(Retained(tokens))
        /\ \A k \in 1..Len(bytecodes) :
              bytecodes[k].op = VariantOf(Retained(tokens)[k])

\* a new Compiler returned three bytecodes for four tokens, a Space and a
\* Comma among them
C16_Witness ==
    /\ NewCompiler
    /\ pc = "returned"
    /\ Len(tokens) = 4
    /\ Len(bytecodes) = 3
    /\ tokens[2] = "Space"
    /\ tokens[3] = "Comma"
    /\ bytecodes[2].op = "InputValue"

(* ------------------------------- C17 ----------------------------------- *)
\* this step executes a loop bytecode whose conditional jump is taken
JumpTaken ==
    \/ Executing("LoopStart") /\ Cell = 0
    \/ Executing("LoopEnd") /\ Cell # 0

\* C17: a step of run leaves code_pointer strictly greater than it was
\* unless it executes a LoopEnd while the current cell is nonzero, and a
\* step that takes no jump leaves it greater by exactly 1.
C17_CodePointerMonotone ==
    [][StepTaken =>
         /\ ~(Executing("LoopEnd") /\ Cell # 0) => code_pointer' > code_pointer
         /\ ~JumpTaken => code_pointer' = code_pointer + 1
      ]_vars

(* ------------------------------- C18 ----------------------------------- *)
\* bc holds no LoopStart and no LoopEnd
LoopFree(bc) == \A k \in 1..Len(bc) : bc[k].op \notin {"LoopStart", "LoopEnd"}

\* C18: the run of a bytecode sequence of length n without loop bytecodes
\* on a new VM has, after k steps, executed the bytecodes 0 .. k - 1 in
\* that order and stands at index k; it can take its next step while
\* k < n and it halts exactly at k = n, whatever the reads returned.
C18_LoopFreeTerminates ==
    (pc = "run" /\ LoopFree(bytecodes)) =>
        /\ steps <= Len(bytecodes)
        /\ code_pointer = steps
        /\ fetched = steps - 1
        /\ steps < Len(bytecodes) => ENABLED Step
        /\ ENABLED Halt <=> steps = Len(bytecodes)

\* four bytecodes without a loop, an InputValue whose read failed among
\* them, have been executed and the run is about to halt
C18_Witness ==
    /\ pc = "run"
    /\ variant = "lib"
    /\ pushed = <<>>
    /\ LoopFree(bytecodes)
    /\ Len(bytecodes) = 4
    /\ bytecodes[2].op = "InputValue"
    /\ steps = 4
    /\ ~Fetch

(* ------------------------------- C19 ----------------------------------- *)
\* this step leaves every cell but the one at the data pointer as it was
OtherCellsKept ==
    \A k \in ((DOMAIN memory) \cup (DOMAIN memory')) \ {mem_pointer} :
        MemGet(memory', k) = MemGet(memory, k)

\* C19: IncrementPointer and DecrementPointer leave every cell as it was;
\* IncrementValue, DecrementValue and an InputValue whose read succeeds
\* leave the data pointer and every cell but the one at the data pointer
\* as they were; OutputValue, LoopStart and LoopEnd leave the whole tape
\* and the data pointer as they were.
C19_FrameEffects ==
    [][/\ (Executing("IncrementPointer") \/ Executing("DecrementPointer")) =>
            memory' = memory
       /\ (\/ Executing("IncrementValue")
           \/ Executing("DecrementValue")
           \/ Executing("InputValue") /\ variant = "lib" /\ Read(input) # <<>>) =>
            (mem_pointer' = mem_pointer /\ OtherCellsKept)
       /\ (Executing("OutputValue") \/ Executing("LoopStart") \/ Executing("LoopEnd")) =>
            (memory' = memory /\ mem_pointer' = mem_pointer)
      ]_vars

\* an IncrementValue at cell 1 has left the 255 of cell 0 in place
C19_Witness ==
    /\ pc = "run"
    /\ FetchedOp = "IncrementValue"
    /\ mem_pointer = 1
    /\ MemGet(memory, 0) = 255
    /\ MemGet(memory, 1) = 1

C21_CompileIndependent ==
    /\ pc = "returned" =>
         /\ CompileNew(tokens).end = "returned"
         /\ CompileNew(tokens).output = bytecodes
    /\ pc = "panicked" =>
         /\ CompileNew(tokens).end = "panicked"
         /\ CompileNew(tokens).tok_pos = tok_pos

(* ------------------------------- C22 ----------------------------------- *)
\* the two VMs have the same code pointer, the same data pointer, the same
\* values in the cells 0..29 and the same output so far
Agree ==
    /\ twin.code_pointer = code_pointer
    /\ twin.mem_pointer = mem_pointer
    /\ twin.buffer = out
    /\ \A k \in 0..29 : MemGet(twin.memory, k) = MemGet(memory, k)

\* C22: the 3000-cell VM and the 30-cell VM start a run in agreement;
\* a step that executes no InputValue and leaves the data pointer of
\* the 3000-cell VM within 0..29 takes them from agreement to agreement;
\* and while they agree the one halts exactly when the other does.
C22_Lockstep ==
    /\ []((pc = "run" /\ steps = 0) => Agree)
    /\ []((pc = "run" /\ Agree) => (Fetch <=> MainFetch(twin, bytecodes)))
    /\ [][(/\ StepTaken
           /\ Agree
           /\ ~Executing("InputValue")
           /\ mem_pointer' \in 0..29) => Agree']_vars

\* a run with a loop and an output has ended on both VMs, in agreement,
\* with the data pointer at cell 1
C22_Witness ==
    /\ pc = "run"
    /\ ~Fetch
    /\ ~MainFetch(twin, bytecodes)
    /\ Agree
    /\ mem_pointer = 1
    /\ out # <<>>
    /\ \E k \in 1..Len(bytecodes) : bytecodes[k].op = "LoopEnd"

(* ------------------------------- C23 ----------------------------------- *)
\* C23: an InputValue whose read succeeds with the character of code
\* point c leaves c mod 256 in the current cell; so `,.` given a first
\* character c writes the character of code point c mod 256, which for
\* c >= 256 is not the character that was read.
C23_CharTruncation ==
    /\ [][(Executing("InputValue") /\ Read(input) # <<>>) =>
             MemGet(memory', mem_pointer) = Read(input)[1] % 256
         ]_vars
    /\ []((/\ pc = "run"
           /\ tokens = <<"Comma", "Dot">>
           /\ pushed # <<>>
           /\ steps = 2) => out = <<pushed[1] % 256>>)

\* `,.` has read U+0141 and has written 'A'
C23_Witness ==
    /\ pc = "run"
    /\ tokens = <<"Comma", "Dot">>
    /\ pushed = <<321>>
    /\ steps = 2
    /\ MemGet(memory, 0) = 65
    /\ out = <<65>>
====
